---- MODULE Spec2Model ----
(***************************************************************************)
(* Model of src/peak_integration.py: the module-level pipeline             *)
(*   read_chromatogram -> peak_finder -> limits_finder -> peak_integration *)
(* over integer-valued chromatograms.                                      *)
(*                                                                         *)
(* Conventions.  numpy arrays and Python lists are TLA+ sequences, read    *)
(* through at(a, i) with the 0-based indices of the source.  A DataFrame   *)
(* row is a record keyed by the column names of the source.  A dict is a   *)
(* record [keys, val]: keys is the insertion order the for-loops follow.   *)
(* A Python value whose type matters (an element of a limits list, which   *)
(* is either an integer or the string "None") is a pair <<type, value>>.   *)
(***************************************************************************)
EXTENDS Integers, Sequences, FiniteSets, TLC

VARIABLES
    pc,            \* the next module-level statement (lines 299-316), or "raised"
    csv,           \* the channel column of the csv file (df[channel], line 26)
    intervals,     \* the module-level list of intervals (line 296)
    chroma_data,   \* module global: the DataFrame of read_chromatogram, as its columns
    pre_peak_data, \* peak_finder's table of all detected peaks (line 108)
    peaks_data,    \* module global: dict str(interval) -> peak table
    peaks_info,    \* the mapping peak_integration received as its second argument
    ret,           \* what peak_integration returned
    err            \* the exception that ended the run, or "none"

vars == <<pc, csv, intervals, chroma_data, pre_peak_data, peaks_data, peaks_info, ret, err>>

----------------------------------------------------------------------------
(* Bounds of the model and constants of the program *)

MaxLen == 13
ShortLen == 6

width == 5
height == 4000
threshold == 1
distance == 2
min_slope == 5

----------------------------------------------------------------------------
(* Arrays, Python values, dicts *)

at(a, i) == a[i + 1]

len(a) == Len(a)

tail1(a) == SubSeq(a, 2, Len(a))

abs(x) == IF x < 0 THEN -x ELSE x

PyInt(n) == <<"int", n>>

PyNone == <<"str", "None">>

is_int(v) == v[1] = "int"

EmptyDict == [keys |-> <<>>, val |-> <<>>]

dict_has(d, k) == \E i \in 1..Len(d.keys) : d.keys[i] = k

dict_pos(d, k) == CHOOSE i \in 1..Len(d.keys) : d.keys[i] = k

dict_get(d, k) == d.val[dict_pos(d, k)]

dict_set(d, k, v) ==
    IF dict_has(d, k)
    THEN [d EXCEPT !.val[dict_pos(d, k)] = v]
    ELSE [keys |-> Append(d.keys, k), val |-> Append(d.val, v)]

str(interval) ==
    "[" \o ToString(interval[1]) \o ", " \o ToString(interval[2]) \o "]"

----------------------------------------------------------------------------
(* read_chromatogram *)

RECURSIVE conv_sum(_, _, _, _)
conv_sum(a, v, k, j) ==
    IF j >= len(v) THEN 0
    ELSE (IF k - j >= 0 /\ k - j < len(a) THEN at(a, k - j) * at(v, j) ELSE 0)
         + conv_sum(a, v, k, j + 1)

convolve(a, v) == [k \in 1..(len(a) + len(v) - 1) |-> conv_sum(a, v, k - 1, 0)]

\* the difference column with the last sample of the convolution dropped
\* instead of the first
first_diff_m(y) == SubSeq(convolve(y, <<1, -1>>), 1, len(y))

first_diff(y) == tail1(convolve(y, <<1, -1>>))

second_diff(y) == tail1(convolve(first_diff(y), <<1, -1>>))

read_chromatogram(y) == <<y, first_diff(y), second_diff(y)>>

iloc_col(df, c) == df[c + 1]

----------------------------------------------------------------------------
(* peak_finder: scipy.signal.find_peaks as called on lines 95-105 *)

\* The body of scipy's _local_maxima_1d from position i on: a sample larger
\* than its left neighbour starts a plateau, which is a maximum when the
\* sample after it is smaller; the midpoint of the plateau is reported.
RECURSIVE plateau_end(_, _, _)
plateau_end(x, i, i_ahead) ==
    IF i_ahead < len(x) - 1 /\ at(x, i_ahead) = at(x, i)
    THEN plateau_end(x, i, i_ahead + 1)
    ELSE i_ahead

RECURSIVE local_maxima_from(_, _)
local_maxima_from(x, i) ==
    IF i >= len(x) - 1 THEN <<>>
    ELSE IF at(x, i - 1) < at(x, i)
         THEN LET i_ahead == plateau_end(x, i, i + 1)
              IN  IF at(x, i_ahead) < at(x, i)
                  THEN <<(i + (i_ahead - 1)) \div 2>> \o local_maxima_from(x, i_ahead + 1)
                  ELSE local_maxima_from(x, i + 1)
         ELSE local_maxima_from(x, i + 1)

local_maxima_1d(x) == local_maxima_from(x, 1)

select_by_height(x, peaks) == SelectSeq(peaks, LAMBDA p : at(x, p) >= height)

min2(a, b) == IF a <= b THEN a ELSE b

\* find_peaks called without threshold
select_by_threshold_m(x, peaks) == peaks

select_by_threshold(x, peaks) ==
    SelectSeq(peaks, LAMBDA p :
        threshold <= min2(at(x, p) - at(x, p - 1), at(x, p) - at(x, p + 1)))

\* _select_by_peak_distance: positions are visited from the highest priority
\* (the peak height) down; a kept peak removes every peak closer than distance.
RECURSIVE distance_keep(_, _, _, _)
distance_keep(x, peaks, todo, keep) ==
    IF todo = {} THEN keep
    ELSE LET j == CHOOSE a \in todo : \A b \in todo :
                      \/ at(x, peaks[a]) > at(x, peaks[b])
                      \/ (at(x, peaks[a]) = at(x, peaks[b]) /\ a >= b)
         IN  IF j \notin keep
             THEN distance_keep(x, peaks, todo \ {j}, keep)
             ELSE distance_keep(x, peaks, todo \ {j},
                      keep \ {k \in DOMAIN peaks :
                                 k # j /\ abs(peaks[k] - peaks[j]) < distance})

select_by_distance(x, peaks) ==
    LET keep == distance_keep(x, peaks, DOMAIN peaks, DOMAIN peaks)
        kept[k \in 0..Len(peaks)] ==
            IF k = 0 THEN <<>>
            ELSE IF k \in keep THEN Append(kept[k - 1], peaks[k]) ELSE kept[k - 1]
    IN  kept[Len(peaks)]

find_peaks(x) ==
    select_by_distance(x, select_by_threshold(x, select_by_height(x, local_maxima_1d(x))))

\* line 108: one row per detected peak
peak_table(x) ==
    LET peaks == find_peaks(x)
    IN  [k \in 1..Len(peaks) |-> [index |-> peaks[k], height |-> at(x, peaks[k])]]

\* the filter with the interval closed on the left
in_interval_m(table, interval) ==
    SelectSeq(table, LAMBDA r : r.index >= interval[1] /\ r.index < interval[2])

\* lines 114-117: the rows whose index lies strictly inside the interval
in_interval(table, interval) ==
    SelectSeq(table, LAMBDA r : r.index > interval[1] /\ r.index < interval[2])

\* lines 112-117: the loop over the intervals, from the i-th one on
RECURSIVE filter_intervals(_, _, _, _)
filter_intervals(table, ivs, i, post_peak_data) ==
    IF i > Len(ivs) THEN post_peak_data
    ELSE filter_intervals(table, ivs, i + 1,
             dict_set(post_peak_data, str(ivs[i]), in_interval(table, ivs[i])))

peak_finder(data, ivs) ==
    filter_intervals(peak_table(iloc_col(data, 0)), ivs, 1, EmptyDict)

----------------------------------------------------------------------------
(* limits_finder *)

\* the forward scan starting one sample late
forward_start_m(p) == p + width + 1

\* line 170: range(peak_idx[i] + width, len(dy)) starts here
forward_start(p) == p + width

\* line 178: reversed(range(0, peak_idx[i] - width)) starts here
backward_start(p) == (p - width) - 1

\* lines 170-175: the first j from the start upward with abs(dy[j]) < min_slope
RECURSIVE forward_scan(_, _, _, _, _)
forward_scan(y, dy, j, ms, limit) ==
    IF j >= len(dy) \/ j < 0 THEN limit
    ELSE IF abs(at(dy, j)) < ms
         THEN [idx |-> PyInt(j), val |-> PyInt(at(y, j))]
         ELSE forward_scan(y, dy, j + 1, ms, limit)

\* lines 178-182: the first j from the start downward with abs(dy[j]) < min_slope
RECURSIVE backward_scan(_, _, _, _, _)
backward_scan(y, dy, j, ms, limit) ==
    IF j < 0 THEN limit
    ELSE IF abs(at(dy, j)) < ms
         THEN [idx |-> PyInt(j), val |-> PyInt(at(y, j))]
         ELSE backward_scan(y, dy, j - 1, ms, limit)

\* both sides starting as the number 0
initial_limit_m == [idx |-> PyInt(0), val |-> PyInt(0)]

\* lines 158-159: both sides start as the string "None"
initial_limit == [idx |-> PyNone, val |-> PyNone]

\* lines 155-185 for one peak: <<limit_idx, limit_val>>
peak_limits(y, dy, p, ms) ==
    LET right == forward_scan(y, dy, forward_start(p), ms, initial_limit)
        left  == backward_scan(y, dy, backward_start(p), ms, initial_limit)
    IN  [idx |-> <<left.idx, right.idx>>, val |-> <<left.val, right.val>>]

absolute(dy) == [k \in 1..Len(dy) |-> abs(dy[k])]

set_column(table, name, values) ==
    [k \in 1..Len(table) |-> (name :> values[k]) @@ table[k]]

\* lines 148-192 for one key
limits_of_table(y, dy, table, ms) ==
    LET lim == [k \in 1..Len(table) |-> peak_limits(y, dy, table[k].index, ms)]
    IN  set_column(set_column(table, "limits idx", [k \in 1..Len(table) |-> lim[k].idx]),
                   "limits val", [k \in 1..Len(table) |-> lim[k].val])

\* lines 146-192: the loop over the keys, from the i-th one on
RECURSIVE limits_loop(_, _, _, _, _)
limits_loop(y, dy, d, i, ms) ==
    IF i > Len(d.keys) THEN d
    ELSE limits_loop(y, dy,
             dict_set(d, d.keys[i], limits_of_table(y, dy, dict_get(d, d.keys[i]), ms)),
             i + 1, ms)

limits_finder(data, d, ms) ==
    limits_loop(iloc_col(data, 0), absolute(iloc_col(data, 1)), d, 1, ms)

----------------------------------------------------------------------------
(* peak_integration *)

\* scipy.integrate.simpson is left uninterpreted: an area is the term
\* simpson(samples), so two areas are equal exactly when the samples
\* handed to the quadrature are.
simpson(y) == <<"simpson", y>>

\* line 217: the comparison of an array with a str raises TypeError
comparable(limit) == is_int(limit[1]) /\ is_int(limit[2])

\* line 217: the samples whose VALUE lies strictly between the two limits
selected(points, limit) ==
    SelectSeq(points, LAMBDA v : v > limit[1][2] /\ v < limit[2][2])

\* lines 216-218 from the i-th limit on; "TypeError" when the loop raised
RECURSIVE areas_loop(_, _, _, _)
areas_loop(points, limits_list, i, areas) ==
    IF i > Len(limits_list) THEN areas
    ELSE IF ~comparable(limits_list[i]) THEN "TypeError"
    ELSE areas_loop(points, limits_list, i + 1,
             Append(areas, simpson(selected(points, limits_list[i]))))

\* lines 206-221 from the i-th key of the dict on
RECURSIVE integration_loop(_, _, _)
integration_loop(points, d, i) ==
    IF i > Len(d.keys) THEN [data |-> d, err |-> "none"]
    ELSE LET table == dict_get(d, d.keys[i])
             limits_list == [k \in 1..Len(table) |-> table[k]["limits idx"]]
             areas == areas_loop(points, limits_list, 1, <<>>)
         IN  IF areas = "TypeError" THEN [data |-> d, err |-> "TypeError"]
             ELSE integration_loop(points,
                      dict_set(d, d.keys[i], set_column(table, "Area", areas)), i + 1)

\* line 206 iterates the module global peaks_data; the parameter peaks_info is
\* rebound on line 208 before it is ever read.
peak_integration(data, info) == integration_loop(iloc_col(data, 0), peaks_data, 1)

----------------------------------------------------------------------------
(* Inputs *)

BinLevels == {3, 4005}

TerLevels == {3, 3999, 4005}

Signals ==
    UNION {[1..n -> BinLevels] : n \in 1..MaxLen}
      \cup UNION {[1..n -> TerLevels] : n \in 1..ShortLen}

IntervalLists ==
    { << <<0, 8>>, <<5, 13>> >>,
      << <<2, 7>> >>,
      << <<9, 9>>, <<0, 14>>, <<7, 4>> >> }

\* the mappings a caller holds when it calls peak_integration: the whole
\* table of limits_finder, or only its first interval
dict_head(d) ==
    IF Len(d.keys) = 0 THEN d
    ELSE [keys |-> SubSeq(d.keys, 1, 1), val |-> SubSeq(d.val, 1, 1)]

Mappings(d) == {d, dict_head(d)}

----------------------------------------------------------------------------
(* The module-level run, lines 293-316 *)

Init ==
    /\ pc = "read_chromatogram"
    /\ csv \in Signals
    /\ intervals \in IntervalLists
    /\ chroma_data = <<>>
    /\ pre_peak_data = <<>>
    /\ peaks_data = EmptyDict
    /\ peaks_info = EmptyDict
    /\ ret = EmptyDict
    /\ err = "none"

\* line 299
ReadChromatogram ==
    /\ pc = "read_chromatogram"
    /\ chroma_data' = read_chromatogram(csv)
    /\ pc' = "peak_finder"
    /\ UNCHANGED <<csv, intervals, pre_peak_data, peaks_data, peaks_info, ret, err>>

\* line 306
PeakFinder ==
    /\ pc = "peak_finder"
    /\ pre_peak_data' = peak_table(iloc_col(chroma_data, 0))
    /\ peaks_data' = peak_finder(chroma_data, intervals)
    /\ pc' = "limits_finder"
    /\ UNCHANGED <<csv, intervals, chroma_data, peaks_info, ret, err>>

\* lines 309-311
LimitsFinder ==
    /\ pc = "limits_finder"
    /\ peaks_data' = limits_finder(chroma_data, peaks_data, min_slope)
    /\ pc' = "peak_integration"
    /\ UNCHANGED <<csv, intervals, chroma_data, pre_peak_data, peaks_info, ret, err>>

\* line 314, and any other call of peak_integration with a mapping of limits
PeakIntegration ==
    /\ pc = "peak_integration"
    /\ \E info \in Mappings(peaks_data) :
          LET r == peak_integration(chroma_data, info)
          IN  /\ peaks_info' = info
              /\ peaks_data' = r.data
              /\ err' = r.err
              /\ ret' = IF r.err = "none" THEN r.data ELSE EmptyDict
              /\ pc' = IF r.err = "none" THEN "plot_results" ELSE "raised"
    /\ UNCHANGED <<csv, intervals, chroma_data, pre_peak_data>>

Next == ReadChromatogram \/ PeakFinder \/ LimitsFinder \/ PeakIntegration

Spec == Init /\ [][Next]_vars

----------------------------------------------------------------------------
(* Vocabulary of the properties *)

Signal == iloc_col(chroma_data, 0)

FirstDiff == iloc_col(chroma_data, 1)

AfterRead == pc # "read_chromatogram"

AfterFinder == pc \notin {"read_chromatogram", "peak_finder"}

AfterLimits == pc \in {"peak_integration", "plot_results", "raised"}

\* every row of every table of the module's mapping
Rows == UNION {{peaks_data.val[i][k] : k \in 1..Len(peaks_data.val[i])} :
                 i \in 1..Len(peaks_data.val)}

Min(S) == CHOOSE m \in S : \A n \in S : m <= n

Max(S) == CHOOSE m \in S : \A n \in S : m >= n

BelowSlope(j) == abs(at(FirstDiff, j)) < min_slope

RightCandidates(p) == {j \in (p + width)..(len(Signal) - 1) : BelowSlope(j)}

LeftCandidates(p) == {j \in 0..(p - width) : BelowSlope(j)}

LeftScanned(p) == {j \in 0..(p - width - 1) : BelowSlope(j)}

Left(r) == r["limits idx"][1]

Right(r) == r["limits idx"][2]

Resolved(r) == is_int(Left(r)) /\ is_int(Right(r))

Peak(r) == [index |-> r.index, height |-> r.height]

InvalidInput ==
    \/ len(csv) < 3
    \/ \E i \in 1..Len(intervals) : intervals[i][1] >= intervals[i][2]

----------------------------------------------------------------------------
(* C1 *)

\* C1: for every assigned peak at index p, when some j with
\* p + width <= j < len(signal) has |firstDiff[j]| < min_slope, the right
\* limit is the smallest such j and the right value is signal[j].
C1_RightBoundary ==
    AfterLimits =>
        \A r \in Rows :
            RightCandidates(r.index) # {} =>
                /\ Right(r) = PyInt(Min(RightCandidates(r.index)))
                /\ r["limits val"][2] = PyInt(at(Signal, Min(RightCandidates(r.index))))

\* a peak whose forward scan had to step over samples that are too steep
C1_Witness ==
    /\ AfterLimits
    /\ \E r \in Rows :
          /\ RightCandidates(r.index) # {}
          /\ Min(RightCandidates(r.index)) > r.index + width
          /\ Min(RightCandidates(r.index)) < len(Signal) - 1

----------------------------------------------------------------------------
(* C2 *)

\* C2: for every assigned peak at index p, when some j with
\* 0 <= j <= p - width has |firstDiff[j]| < min_slope, the left limit is
\* the largest such j and the left value is signal[j].
C2_LeftBoundary ==
    AfterLimits =>
        \A r \in Rows :
            LeftCandidates(r.index) # {} =>
                /\ Left(r) = PyInt(Max(LeftCandidates(r.index)))
                /\ r["limits val"][1] = PyInt(at(Signal, Max(LeftCandidates(r.index))))

----------------------------------------------------------------------------
(* C3 *)

\* C3: for each peak with both limits resolved, the samples handed to the
\* quadrature are signal[left], ..., signal[right], in signal order.
C3_IntegratesSlice ==
    (pc = "plot_results" /\ peaks_info.keys = ret.keys) =>
        \A r \in Rows :
            r["Area"] = simpson(SubSeq(Signal, Left(r)[2] + 1, Right(r)[2] + 1))

----------------------------------------------------------------------------
(* C4 *)

\* C4: limits_finder raises nothing; a side with no index below min_slope in
\* its scan (the backward range may be empty) holds the sentinel in its index
\* and its value, the sentinel is held by no resolved side, and a side with
\* such an index is resolved whatever happened to the other side.
C4_UnresolvedSentinel ==
    AfterLimits =>
        /\ pc = "peak_integration" => err = "none"
        /\ \A r \in Rows :
              /\ RightCandidates(r.index) = {} =>
                    Right(r) = PyNone /\ r["limits val"][2] = PyNone
              /\ LeftCandidates(r.index) = {} =>
                    Left(r) = PyNone /\ r["limits val"][1] = PyNone
              /\ RightCandidates(r.index) # {} =>
                    is_int(Right(r)) /\ is_int(r["limits val"][2])
              /\ LeftScanned(r.index) # {} =>
                    is_int(Left(r)) /\ is_int(r["limits val"][1])
              /\ Left(r) = PyNone => LeftScanned(r.index) = {}
              /\ Right(r) = PyNone => RightCandidates(r.index) = {}

\* a peak within width of the start whose right side resolved, next to a
\* peak of the same table with its left side resolved
C4_Witness ==
    /\ pc = "peak_integration"
    /\ \E r \in Rows :
          /\ r.index < width
          /\ Left(r) = PyNone
          /\ is_int(Right(r))
    /\ \E r \in Rows : is_int(Left(r))

----------------------------------------------------------------------------
(* C5 *)

\* C5: when some peak of the mapping has an unresolved side, peak_integration
\* completes, that peak keeps its row with an area that is no number, and
\* every resolved peak has its area.
C5_UnresolvedSkipped ==
    (pc \in {"plot_results", "raised"} /\ \E r \in Rows : ~Resolved(r)) =>
        /\ pc = "plot_results"
        /\ err = "none"
        /\ \A r \in Rows :
              IF Resolved(r)
              THEN r["Area"][1] = "simpson"
              ELSE r["Area"] = PyNone

----------------------------------------------------------------------------
(* C6 *)

StoredPeaks(interval) ==
    LET table == dict_get(peaks_data, str(interval))
    IN  [k \in 1..Len(table) |-> Peak(table[k])]

DetectedAt(k, interval) ==
    pre_peak_data[k].index > interval[1] /\ pre_peak_data[k].index < interval[2]

\* C6: the sequence stored for interval [s, e] holds exactly the detected
\* peaks with s < index < e, each once, in detection order.
C6_OpenIntervalMembership ==
    AfterFinder =>
        \A i \in 1..Len(intervals) :
            LET stored == StoredPeaks(intervals[i])
            IN  /\ dict_has(peaks_data, str(intervals[i]))
                /\ \A k \in 1..Len(pre_peak_data) :
                      DetectedAt(k, intervals[i]) <=>
                          \E a \in 1..Len(stored) : stored[a] = pre_peak_data[k]
                /\ \A a \in 1..Len(stored) :
                      \E k \in 1..Len(pre_peak_data) : stored[a] = pre_peak_data[k]
                /\ \A a, b \in 1..Len(stored) :
                      a < b =>
                          \E k, l \in 1..Len(pre_peak_data) :
                              /\ k < l
                              /\ stored[a] = pre_peak_data[k]
                              /\ stored[b] = pre_peak_data[l]

\* one peak on an interval's bound, one inside two intervals, one inside
\* one interval only
C6_Witness ==
    /\ AfterFinder
    /\ Len(intervals) = 2
    /\ \E k \in 1..Len(pre_peak_data) :
          pre_peak_data[k].index = intervals[1][2]
    /\ \E k \in 1..Len(pre_peak_data) :
          DetectedAt(k, intervals[1]) /\ DetectedAt(k, intervals[2])
    /\ \E k \in 1..Len(pre_peak_data) :
          DetectedAt(k, intervals[1]) /\ ~DetectedAt(k, intervals[2])

----------------------------------------------------------------------------
(* C7 *)

----------------------------------------------------------------------------
(* C8 *)

\* C8: with a signal shorter than 3 samples or an interval with
\* start >= end, the run ends in InvalidInput and no stage has produced output.
C8_InvalidInputRejected ==
    InvalidInput =>
        /\ pc \in {"read_chromatogram", "raised"}
        /\ pc = "raised" => err = "InvalidInput"
        /\ chroma_data = <<>>
        /\ pre_peak_data = <<>>
        /\ peaks_data = EmptyDict

----------------------------------------------------------------------------
(* C9 *)

\* C9: every detected peak at index i has intensity[i] >= height,
\* intensity[i] > intensity[i-1] and intensity[i] > intensity[i+1], and the
\* detected peaks come in increasing index order.
C9_StrictLocalMaxima ==
    AfterFinder =>
        /\ \A k \in 1..Len(pre_peak_data) :
              LET i == pre_peak_data[k].index
              IN  /\ i >= 1 /\ i <= len(Signal) - 2
                  /\ at(Signal, i) >= height
                  /\ at(Signal, i) > at(Signal, i - 1)
                  /\ at(Signal, i) > at(Signal, i + 1)
        /\ \A k \in 1..(Len(pre_peak_data) - 1) :
              pre_peak_data[k].index < pre_peak_data[k + 1].index

\* two peaks are reported, and a plateau that reaches height is not
C9_Witness ==
    /\ AfterFinder
    /\ Len(pre_peak_data) >= 2
    /\ \E i \in 1..(len(Signal) - 3) :
          /\ at(Signal, i) >= height
          /\ at(Signal, i) > at(Signal, i - 1)
          /\ at(Signal, i) = at(Signal, i + 1)
          /\ at(Signal, i + 1) > at(Signal, i + 2)

----------------------------------------------------------------------------
(* C10 *)

\* C10: what peak_integration returns is determined by its two arguments:
\* it is the mapping it was given, each table enriched with the areas.
C10_ArgumentsOnly ==
    pc = "plot_results" =>
        /\ ret.keys = peaks_info.keys
        /\ ret = integration_loop(Signal, peaks_info, 1).data

====
